---- MODULE Spec2Model ----
(***************************************************************************)
(* Model of sqlchain.Chain (src/sqlchain/chain.go): the chain state, the   *)
(* block index, the bolt store and the calls NewChain, LoadChain,          *)
(* PushBlock and AdviseNewBlock.  Chain takes no lock, so PushBlock and    *)
(* AdviseNewBlock are modelled per caller, one step per access to the      *)
(* shared chain, and the steps of different callers interleave.            *)
(* The Runtime, its lock and stop channel, and the block producing loop    *)
(* with Cycle and Stop follow, and then resolver.InjectMagicVars           *)
(* (src/unnamed/part_001), a function of its two arguments.                *)
(***************************************************************************)
EXTENDS Integers, FiniteSets, Sequences, TLC

VARIABLES
    life,    \* "none": no Chain object; "init": NewChain built it; "active"
    cfg,     \* cfg.Genesis.SignedHeader of the running configuration
    state,   \* c.state: [node, Head, Height]
    index,   \* c.index: the set of block nodes, one per hash
    db,      \* the bolt file: NoDB, or [meta, log]
    rt,      \* c.rt: the Runtime, [NextHeight, Offset, stopCh, readers, writer]
    nodes,   \* the nodes array LoadChain rebuilt on its last run
    bootErr, \* the last of NewChain / LoadChain to run, and the error it returned
    pc,      \* per caller: the line of chain.go it is at
    call,    \* per caller: the exported method it called last
    arg,     \* per caller: the signed header of the running call, or of the last one if accepted
    ret,     \* per caller: what that call returned ("pending" while running)
    tmp,     \* per caller: the value of c.state.Height read by Height++
    txKey,    \* per caller: the key its open transaction has put its header under
    seen,    \* per caller: the chain as it was when the running call began
    now,     \* time.Now(), in the unit of Period
    loop,    \* the goroutine that runs BlockProducingCycle: [pc, nh, d, wake, late, spun]
    pendingBlock,  \* c.pendingBlock: "unsigned" or "signed"
    inj      \* a call of resolver.InjectMagicVars: [q, vars, out, done]

vars == <<life, cfg, state, index, db, rt, nodes, bootErr, pc, call, arg, ret, tmp, txKey, seen,
          now, loop, pendingBlock, inj>>

\* ---------------------------------------------------------------- bounds
\* No call begins at or above these heights: MaxHeight for a single caller,
\* MaxRaceHeight for concurrent callers.
MaxHeight == 2
MaxRaceHeight == 1
Period == 2
T0 == 1
Threads == {"t1", "t2"}

\* The latest block timestamp: the end of the period that follows MaxHeight.
MaxTime == T0 + (MaxHeight + 2) * Period

\* ---------------------------------------------------------------- values
Nil == [nil |-> TRUE]
NoDB == [nodb |-> TRUE]
Root == 0      \* the placeholder root hash of the configuration
Orphan == Root + 1    \* the hash of a block this chain never saw

\* hash.Hash of a header: content-derived and collision-free.
HashOf(parent, ts, ok) == 2 + (parent * (MaxTime + 1) + ts) * 2 + (IF ok THEN 1 ELSE 0)

\* A SignedHeader; sigOK is what its signature check will answer.
MkHeader(parent, ts, ok) ==
    [ParentHash |-> parent, Timestamp |-> ts, sigOK |-> ok, RootHash |-> Root,
     BlockHash |-> HashOf(parent, ts, ok)]

GenesisCandidates == {MkHeader(p, T0, ok) : p \in {Root, Orphan}, ok \in BOOLEAN}

\* SignedHeader.VerifyAsGenesis, SignedHeader.Verify, Block.Verify
VerifyAsGenesis(h) == h.sigOK
Verify(h) == h.sigOK

\* ---------------------------------------------------------------- block nodes
\* newBlockNode / initBlockNode: height 0 without a parent, parent.height + 1 with one.
newBlockNode(block, parent) ==
    [hash |-> block.BlockHash,
     parent |-> parent,
     parentHash |-> block.ParentHash,
     height |-> IF parent = Nil THEN 0 ELSE parent.height + 1]

\* blockNode.indexKey: the height, then the hash.
indexKey(node) == <<node.height, node.hash>>
KeyLess(k1, k2) == k1[1] < k2[1] \/ (k1[1] = k2[1] /\ k1[2] < k2[2])

\* blockIndex: a map from hash to node.
AddBlock(idx, node) == {n \in idx : n.hash # node.hash} \cup {node}
HasBlock(idx, h) == \E n \in idx : n.hash = h
LookupNode(idx, h) == IF HasBlock(idx, h) THEN CHOOSE n \in idx : n.hash = h ELSE Nil

\* ---------------------------------------------------------------- the store
EmptyStore == [meta |-> Nil, log |-> {}]
\* Bucket.Put: one record per key.
Put(log, key, header) == {r \in log : r.key # key} \cup {[key |-> key, header |-> header]}
\* State.marshal: Head and Height, not the node.
marshal(s) == [Head |-> s.Head, Height |-> s.Height]

\* What NewChain or LoadChain returned.
Boot(op, err) == [op |-> op, err |-> err]

NoState == [node |-> Nil, Head |-> Root, Height |-> -1]
\* The Runtime NewChain and LoadChain build (lines 165-171, 203-209).
\* readers and writer are the holders of the embedded RWMutex.
NewRuntime ==
    [NextHeight |-> 1, Offset |-> 0, stopCh |-> "open", readers |-> {}, writer |-> "none"]
NoRuntime ==
    [NextHeight |-> 0, Offset |-> 0, stopCh |-> "none", readers |-> {}, writer |-> "none"]
\* No goroutine runs BlockProducingCycle.
NoLoop == [pc |-> "none", nh |-> 0, d |-> 0, wake |-> 0, late |-> FALSE, spun |-> FALSE]

\* No call of InjectMagicVars.
NoInject == [q |-> Nil, vars |-> Nil, out |-> Nil, done |-> TRUE]

\* No Chain is built, no store exists, no caller is in a call.
InitChain ==
    /\ life = "none"
    /\ cfg = Nil
    /\ state = NoState
    /\ index = {}
    /\ db = NoDB
    /\ rt = NoRuntime
    /\ nodes = <<>>
    /\ bootErr = Boot("none", "none")
    /\ pc = [t \in Threads |-> "idle"]
    /\ call = [t \in Threads |-> "none"]
    /\ arg = [t \in Threads |-> Nil]
    /\ ret = [t \in Threads |-> "none"]
    /\ tmp = [t \in Threads |-> 0]
    /\ txKey = [t \in Threads |-> Nil]
    /\ seen = [t \in Threads |-> Nil]
    /\ now = 0
    /\ loop = NoLoop
    /\ pendingBlock = "unsigned"

Init == InitChain /\ inj = NoInject

ResetThreads ==
    /\ pc' = [t \in Threads |-> "idle"]
    /\ call' = [t \in Threads |-> "none"]
    /\ arg' = [t \in Threads |-> Nil]
    /\ ret' = [t \in Threads |-> "none"]
    /\ tmp' = [t \in Threads |-> 0]
    /\ txKey' = [t \in Threads |-> Nil]
    /\ seen' = [t \in Threads |-> Nil]

\* ---------------------------------------------------------------- NewChain
\* The State of a Chain that starts above the genesis block.
StateAtZero(g) == [node |-> Nil, Head |-> g.RootHash, Height |-> 0]
\* NewChain, lines 173-177: the State before the genesis block is pushed.
InitialState(g) == [node |-> Nil, Head |-> g.RootHash, Height |-> -1]

\* NewChain, lines 131-178: verify the genesis header, open the store and
\* create its buckets, build the Chain with no block yet.
NewChainConstruct ==
    /\ life = "none"
    /\ IF db = NoDB THEN TRUE ELSE db.meta = Nil
    /\ \E g \in GenesisCandidates :
        IF ~VerifyAsGenesis(g)
        THEN /\ bootErr' = Boot("NewChain", "ErrVerify")
             /\ UNCHANGED <<now, inj, loop, pendingBlock, life, cfg, state, index, db, rt>>
        ELSE /\ cfg' = g
             /\ rt' = NewRuntime
             /\ db' = IF db = NoDB THEN EmptyStore ELSE db
             /\ state' = InitialState(g)
             /\ index' = {}
             /\ life' = "init"
             /\ bootErr' = Boot("NewChain", "pending")
    /\ pendingBlock' = "unsigned"
    /\ UNCHANGED <<nodes, pc, call, arg, ret, tmp, txKey, seen, now, inj, loop>>

\* NewChain, lines 180-186: push the genesis header; no other caller holds
\* the Chain yet, so this PushBlock runs alone.
NewChainPushGenesis ==
    /\ life = "init"
    /\ IF cfg.ParentHash # state.Head
       THEN /\ bootErr' = Boot("NewChain", "ErrInvalidBlock")
            /\ life' = "none"
            /\ state' = NoState
            /\ rt' = NoRuntime
            /\ UNCHANGED <<index, db>>
       ELSE LET node == newBlockNode(cfg, state.node)
                st == [node |-> node, Head |-> cfg.BlockHash, Height |-> state.Height + 1]
            IN \E ok \in BOOLEAN :
                IF ok
                THEN /\ state' = st
                     /\ index' = AddBlock(index, node)
                     /\ db' = [meta |-> marshal(st), log |-> Put(db.log, indexKey(node), cfg)]
                     /\ life' = "active"
                     /\ rt' = rt
                     /\ bootErr' = Boot("NewChain", "nil")
                ELSE /\ state' = NoState
                     /\ index' = {}
                     /\ db' = db
                     /\ life' = "none"
                     /\ rt' = NoRuntime
                     /\ bootErr' = Boot("NewChain", "ErrStore")
    /\ UNCHANGED <<cfg, nodes, pc, call, arg, ret, tmp, txKey, seen, now, inj, loop, pendingBlock>>

\* The process holding the Chain ends (a close or a crash): the memory is
\* gone, every call in progress with it; the store keeps what was committed.
Crash ==
    /\ life = "active"
    /\ life' = "none"
    /\ state' = NoState
    /\ index' = {}
    /\ rt' = NoRuntime
    /\ bootErr' = Boot("none", "none")
    /\ ResetThreads
    /\ loop' = NoLoop
    /\ pendingBlock' = "unsigned"
    /\ UNCHANGED <<cfg, db, nodes, now, inj>>

\* ---------------------------------------------------------------- LoadChain
\* The index LoadChain gives the new Chain; the loop looks parents up in it
\* and never adds to it.
newBlockIndex == {}

MinRecord(recs) == CHOOSE r \in recs : \A q \in recs : q = r \/ KeyLess(r.key, q.key)

\* LoadChain, lines 237-268: the cursor loop over the header records in key
\* order.  Gives the error met, if any, and the nodes initialised so far.
RECURSIVE Rebuild(_, _, _)
Rebuild(recs, lastNode, acc) ==
    IF recs = {} THEN [err |-> "nil", nodes |-> acc]
    ELSE LET r == MinRecord(recs)
             header == r.header
             rest == recs \ {r}
         IN IF lastNode = Nil
            THEN IF ~VerifyAsGenesis(header)
                 THEN [err |-> "ErrVerify", nodes |-> acc]
                 ELSE LET n == newBlockNode(header, Nil)
                      IN Rebuild(rest, n, Append(acc, n))
            ELSE IF header.ParentHash = lastNode.hash
            THEN IF ~Verify(header)
                 THEN [err |-> "ErrVerify", nodes |-> acc]
                 ELSE LET n == newBlockNode(header, lastNode)
                      IN Rebuild(rest, n, Append(acc, n))
            ELSE LET parent == LookupNode(newBlockIndex, header.ParentHash)
                 IN IF parent = Nil
                    THEN [err |-> "ErrParentNotFound", nodes |-> acc]
                    ELSE LET n == newBlockNode(header, parent)
                         IN Rebuild(rest, n, Append(acc, n))

\* LoadChain, lines 190-278: the state comes from the meta record (Head and
\* Height; node stays nil), the index stays as newBlockIndex made it.
LoadChain ==
    /\ life = "none"
    /\ db # NoDB
    /\ cfg # Nil
    /\ IF db.meta = Nil
       THEN /\ bootErr' = Boot("LoadChain", "ErrEncoding")
            /\ UNCHANGED <<life, state, index, rt, nodes>>
       ELSE LET res == Rebuild(db.log, Nil, <<>>)
            IN /\ bootErr' = Boot("LoadChain", res.err)
               /\ nodes' = res.nodes
               /\ IF res.err = "nil"
                  THEN /\ life' = "active"
                       /\ state' = [node |-> Nil, Head |-> db.meta.Head, Height |-> db.meta.Height]
                       /\ index' = newBlockIndex
                       /\ rt' = NewRuntime
                  ELSE UNCHANGED <<life, state, index, rt>>
    /\ UNCHANGED <<cfg, db, pc, call, arg, ret, tmp, txKey, seen, now, inj, loop, pendingBlock>>

\* ---------------------------------------------------------------- callers
\* The period of the block that follows height h: [SlotStart, SlotEnd).
SlotStart(h) == T0 + (h + 1) * Period
SlotEnd(h) == SlotStart(h) + Period

\* The parents a caller can name: the head, the genesis block, a block this
\* chain never saw.
KnownHashes == {state.Head, cfg.BlockHash, Orphan}

\* The headers of a single caller: a new header on any of these parents,
\* timed from one unit before the period of the next height to its end,
\* signed well or not; or a header the store already holds, sent again.
SeqInputs ==
    {MkHeader(p, ts, ok) : p \in KnownHashes,
                           ts \in (SlotStart(state.Height) - 1)..SlotEnd(state.Height),
                           ok \in BOOLEAN}
        \cup {r.header : r \in db.log}

\* The headers of concurrent callers: the blocks the producers of the next
\* height send, signed, on the head, timed in its period.
ConcInputs ==
    {MkHeader(state.Head, ts, TRUE) : ts \in SlotStart(state.Height)..(SlotEnd(state.Height) - 1)}

Goto(t, line) == pc' = [pc EXCEPT ![t] = line]
\* A call returns: the caller is idle again and holds the result.
Return(t, code) == /\ pc' = [pc EXCEPT ![t] = "idle"]
                   /\ ret' = [ret EXCEPT ![t] = code]
                   /\ arg' = [arg EXCEPT ![t] = IF code = "nil" THEN arg[t] ELSE Nil]
                   /\ seen' = [seen EXCEPT ![t] = Nil]

\* A caller enters PushBlock or AdviseNewBlock with a header of its own.
Begin(t, method, line, inputs, cap) ==
    /\ life = "active" /\ pc[t] = "idle"
    /\ state.Height < cap
    /\ Cardinality(index) <= cap /\ Cardinality(db.log) <= cap
    /\ \E hdr \in inputs : arg' = [arg EXCEPT ![t] = hdr]
    /\ call' = [call EXCEPT ![t] = method]
    /\ ret' = [ret EXCEPT ![t] = "pending"]
    /\ seen' = [seen EXCEPT ![t] = [state |-> state, index |-> index, db |-> db, rt |-> rt]]
    /\ Goto(t, line)
    /\ UNCHANGED <<now, inj, loop, pendingBlock, life, cfg, state, index, db, rt, nodes, bootErr, tmp, txKey>>

PushBlockCall(t, inputs, cap) == Begin(t, "PushBlock", "p283", inputs, cap)
AdviseNewBlockCall(t, inputs, cap) == Begin(t, "AdviseNewBlock", "a328", inputs, cap)

\* ExtendsHead letting through a block that extends the genesis block too.
ExtendsHeadOrGenesis(block) ==
    block.ParentHash = state.Head \/ block.ParentHash = cfg.BlockHash

\* PushBlock, lines 283-285: the pushed block must extend the head.
ExtendsHead(block) == block.ParentHash = state.Head

\* PushBlock283 counting the block before it checks the parent.
PushBlock283CountsFirst(t) ==
    /\ pc[t] = "p283"
    /\ state' = [state EXCEPT !.Height = state.Height + 1]
    /\ IF ~ExtendsHead(arg[t])
       THEN Return(t, "ErrInvalidBlock")
       ELSE Goto(t, "p288") /\ UNCHANGED <<ret, arg, seen>>
    /\ UNCHANGED <<now, inj, loop, pendingBlock, life, cfg, index, db, rt, nodes, bootErr, call, tmp, txKey>>

\* PushBlock reached from AdviseNewBlock (line 347) or called by itself.
PushBlock283(t) ==
    /\ pc[t] = "p283"
    /\ IF ~ExtendsHead(arg[t])
       THEN Return(t, "ErrInvalidBlock")
       ELSE Goto(t, "p288") /\ UNCHANGED <<ret, arg, seen>>
    /\ UNCHANGED <<now, inj, loop, pendingBlock, life, cfg, state, index, db, rt, nodes, bootErr, call, tmp, txKey>>

\* PushBlock, line 288
PushBlock288(t) ==
    /\ pc[t] = "p288"
    /\ state' = [state EXCEPT !.node = newBlockNode(arg[t], state.node)]
    /\ Goto(t, "p289")
    /\ UNCHANGED <<now, inj, loop, pendingBlock, life, cfg, index, db, rt, nodes, bootErr, call, arg, ret, tmp, txKey, seen>>

\* PushBlock, line 289
PushBlock289(t) ==
    /\ pc[t] = "p289"
    /\ state' = [state EXCEPT !.Head = arg[t].BlockHash]
    /\ Goto(t, "p290")
    /\ UNCHANGED <<now, inj, loop, pendingBlock, life, cfg, index, db, rt, nodes, bootErr, call, arg, ret, tmp, txKey, seen>>

\* PushBlock, line 290: Height++ is a read and a write, with no lock around them.
PushBlock290Read(t) ==
    /\ pc[t] = "p290"
    /\ tmp' = [tmp EXCEPT ![t] = state.Height]
    /\ Goto(t, "p290w")
    /\ UNCHANGED <<now, inj, loop, pendingBlock, life, cfg, state, index, db, rt, nodes, bootErr, call, arg, ret, txKey, seen>>

PushBlock290Write(t) ==
    /\ pc[t] = "p290w"
    /\ state' = [state EXCEPT !.Height = tmp[t] + 1]
    /\ tmp' = [tmp EXCEPT ![t] = 0]
    /\ Goto(t, "p293")
    /\ UNCHANGED <<now, inj, loop, pendingBlock, life, cfg, index, db, rt, nodes, bootErr, call, arg, ret, txKey, seen>>

\* PushBlock, line 293
PushBlock293(t) ==
    /\ pc[t] = "p293"
    /\ index' = AddBlock(index, state.node)
    /\ Goto(t, "p296")
    /\ UNCHANGED <<now, inj, loop, pendingBlock, life, cfg, state, db, rt, nodes, bootErr, call, arg, ret, tmp, txKey, seen>>

\* PushBlock, lines 296-308: db.Update opens the one write transaction bolt
\* allows at a time; its function puts the header under the key of
\* c.state.node as it is now.
PushBlock303(t) ==
    /\ pc[t] = "p296"
    /\ \A u \in Threads : pc[u] # "p310"
    /\ txKey' = [txKey EXCEPT ![t] = indexKey(state.node)]
    /\ Goto(t, "p310")
    /\ UNCHANGED <<now, inj, loop, pendingBlock, life, cfg, state, index, db, rt, nodes, bootErr, call, arg, ret, tmp, seen>>

\* PushBlock, lines 310-319: the function puts c.state as it is now under the
\* state key, and the transaction commits both records, or fails and commits
\* neither.
PushBlock310(t) ==
    /\ pc[t] = "p310"
    /\ \E ok \in BOOLEAN :
        IF ok
        THEN /\ db' = [meta |-> marshal(state), log |-> Put(db.log, txKey[t], arg[t])]
             /\ Return(t, "nil")
        ELSE /\ db' = db
             /\ Return(t, "ErrStore")
    /\ txKey' = [txKey EXCEPT ![t] = Nil]
    /\ UNCHANGED <<now, inj, loop, pendingBlock, life, cfg, state, index, rt, nodes, bootErr, call, tmp>>

\* OutOfPeriod taking the end of the period as part of it.
OutOfPeriodEndInclusive(ptime, genesisTime, height) ==
    LET start == genesisTime + (height + 1) * Period
        end == start + Period
    IN ptime < start \/ ptime > end

\* AdviseNewBlock, lines 333-340: the producing time of the block lies in
\* the period of the next height.
OutOfPeriod(ptime, genesisTime, height) ==
    LET start == genesisTime + (height + 1) * Period
        end == start + Period
    IN ptime < start \/ (ptime = end \/ ptime > end)

\* AdviseNewBlock, lines 327-330
AdviseNewBlock328(t) ==
    /\ pc[t] = "a328"
    /\ IF HasBlock(index, arg[t].BlockHash)
       THEN Return(t, "ErrBlockExists")
       ELSE Goto(t, "a333") /\ UNCHANGED <<ret, arg, seen>>
    /\ UNCHANGED <<now, inj, loop, pendingBlock, life, cfg, state, index, db, rt, nodes, bootErr, call, tmp, txKey>>

\* AdviseNewBlock, lines 332-347
AdviseNewBlock333(t) ==
    /\ pc[t] = "a333"
    /\ IF OutOfPeriod(arg[t].Timestamp, cfg.Timestamp, state.Height)
       THEN Return(t, "ErrBlockTimestampOutOfPeriod")
       ELSE IF ~Verify(arg[t])
       THEN Return(t, "ErrVerify")
       ELSE Goto(t, "p283") /\ UNCHANGED <<ret, arg, seen>>
    /\ UNCHANGED <<now, inj, loop, pendingBlock, life, cfg, state, index, db, rt, nodes, bootErr, call, tmp, txKey>>

\* ---------------------------------------------------------------- the clock
chainVars == <<life, cfg, state, index, db, nodes, bootErr>>
callerVars == <<pc, call, arg, ret, tmp, txKey, seen>>

\* time.Now() is read up to MaxNow, and on until a sleeper has woken.
MaxNow == 5
\* No GotoNextTurn is called from outside the loop at or above this height.
MaxTurn == 3
\* The chain time given to UpdateTime is at most this far from time.Now().
MaxOffset == 1

\* Runtime.Now, line 81
Now(r) == now + r.Offset

\* Runtime.TillNextWakeUp, line 95, of the NextHeight it read and the time
\* Now gave it.
TillNextWakeUp(nh, chainNow) == cfg.Timestamp + nh * Period - chainNow

\* GotoNextTurn passing over a height.
GotoNextTurnSkips(r) == [r EXCEPT !.NextHeight = r.NextHeight + 2]
\* Runtime.GotoNextTurn, line 87
GotoNextTurn(r) == [r EXCEPT !.NextHeight = r.NextHeight + 1]

\* Chain.IsMyTurn, lines 353-355
IsMyTurn == FALSE

\* A goroutine panics: the process ends, as in Crash, and is not started again.
Panic ==
    /\ life' = "panicked"
    /\ state' = NoState
    /\ index' = {}
    /\ rt' = NoRuntime
    /\ loop' = NoLoop
    /\ pendingBlock' = "unsigned"
    /\ ResetThreads
    /\ UNCHANGED <<cfg, db, nodes, bootErr, now, inj>>

\* time.Now() advances.
Tick ==
    /\ now < MaxNow \/ (loop.pc = "sleep" /\ now < loop.wake)
    /\ now' = now + 1
    /\ UNCHANGED <<chainVars, callerVars, rt, loop, pendingBlock, inj>>

\* ---------------------------------------------------------------- production
\* A goroutine enters BlockProducingCycle; late records that the stop
\* channel was closed by then.
BlockProducingCycleCall ==
    /\ life = "active"
    /\ loop.pc \in {"none", "returned"}
    /\ loop' = [NoLoop EXCEPT !.pc = "l385", !.late = (rt.stopCh = "closed")]
    /\ UNCHANGED <<chainVars, callerVars, rt, now, inj, pendingBlock>>

\* The select taking its default branch whatever the stop channel.
StopChNeverSeen(r) == FALSE
\* BlockProducingCycle, lines 385-388: the select on the stop channel.
StopChClosed(r) == r.stopCh = "closed"
Loop385 ==
    /\ loop.pc = "l385"
    /\ loop' = [loop EXCEPT !.pc = IF StopChClosed(rt) THEN "returned" ELSE "t95"]
    /\ UNCHANGED <<chainVars, callerVars, rt, now, inj, pendingBlock>>

\* TillNextWakeUp, line 95: NextHeight and Period are read before Now is
\* called, with no lock held.
TillNextWakeUp95 ==
    /\ loop.pc = "t95"
    /\ loop' = [loop EXCEPT !.nh = rt.NextHeight, !.pc = "n79"]
    /\ UNCHANGED <<chainVars, callerVars, rt, now, inj, pendingBlock>>

\* Now, line 79: RLock
Now79 ==
    /\ loop.pc = "n79"
    /\ rt.writer = "none"
    /\ rt' = [rt EXCEPT !.readers = @ \cup {"loop"}]
    /\ loop' = [loop EXCEPT !.pc = "n81"]
    /\ UNCHANGED <<chainVars, callerVars, now, inj, pendingBlock>>

\* Now, lines 80-81, and the rest of line 95: Offset is read, the lock is
\* released, the time to the next wake-up is computed.
Now81 ==
    /\ loop.pc = "n81"
    /\ rt' = [rt EXCEPT !.readers = @ \ {"loop"}]
    /\ loop' = [loop EXCEPT !.d = TillNextWakeUp(loop.nh, Now(rt)), !.pc = "l389"]
    /\ UNCHANGED <<chainVars, callerVars, now, inj, pendingBlock>>

\* A slot that is not the producer's moving the loop to the next height.
SkipTurnAdvances ==
    /\ loop' = [loop EXCEPT !.pc = "l385", !.spun = TRUE]
    /\ rt' = GotoNextTurn(rt)
    /\ UNCHANGED <<chainVars, callerVars, now, inj, pendingBlock>>

\* BlockProducingCycle, lines 391-395: the slot has begun and it is not the
\* producer's turn; the loop goes round (spun records that it has).
SkipTurn ==
    /\ loop' = [loop EXCEPT !.pc = "l385", !.spun = TRUE]
    /\ UNCHANGED <<chainVars, callerVars, rt, now, inj, pendingBlock>>

\* BlockProducingCycle, lines 389-394.  In its turn the loop runs Cycle
\* (ProduceBlock, and Stop if it fails) and then GotoNextTurn.
Loop389 ==
    /\ loop.pc = "l389"
    /\ IF loop.d > 0
       THEN /\ loop' = [loop EXCEPT !.pc = "l390"]
            /\ UNCHANGED <<chainVars, callerVars, rt, now, inj, pendingBlock>>
       ELSE IF IsMyTurn
       THEN \E err \in BOOLEAN :
                IF err /\ rt.stopCh = "closed"
                THEN Panic
                ELSE /\ pendingBlock' = IF err THEN pendingBlock ELSE "signed"
                     /\ rt' = GotoNextTurn([rt EXCEPT !.stopCh = IF err THEN "closed" ELSE @])
                     /\ loop' = [loop EXCEPT !.pc = "l385"]
                     /\ UNCHANGED <<chainVars, callerVars, now, inj>>
       ELSE SkipTurn

\* BlockProducingCycle, line 390: time.Sleep(d) begins.
Loop390 ==
    /\ loop.pc = "l390"
    /\ loop' = [loop EXCEPT !.pc = "sleep", !.wake = now + loop.d]
    /\ UNCHANGED <<chainVars, callerVars, rt, now, inj, pendingBlock>>

\* A sleep that a closed stop channel cuts short.
WakeOrStopped ==
    /\ loop.pc = "sleep"
    /\ now >= loop.wake \/ rt.stopCh = "closed"
    /\ loop' = [loop EXCEPT !.pc = "l385"]
    /\ UNCHANGED <<chainVars, callerVars, rt, now, inj, pendingBlock>>

\* time.Sleep(d) returns once d has passed, whatever the stop channel.
Wake ==
    /\ loop.pc = "sleep"
    /\ now >= loop.wake
    /\ loop' = [loop EXCEPT !.pc = "l385"]
    /\ UNCHANGED <<chainVars, callerVars, rt, now, inj, pendingBlock>>

\* Chain.Stop, lines 399-401, and Runtime.Stop, lines 90-92: close(stopCh);
\* the close of a closed channel panics.
StopCall(t) ==
    /\ life = "active" /\ pc[t] = "idle"
    /\ IF rt.stopCh = "closed"
       THEN Panic
       ELSE /\ rt' = [rt EXCEPT !.stopCh = "closed"]
            /\ call' = [call EXCEPT ![t] = "Stop"]
            /\ ret' = [ret EXCEPT ![t] = "nil"]
            /\ arg' = [arg EXCEPT ![t] = Nil]
            /\ UNCHANGED <<chainVars, pc, tmp, txKey, seen, now, inj, loop, pendingBlock>>

\* A caller enters Chain.Cycle.
CycleCall(t) ==
    /\ life = "active" /\ pc[t] = "idle"
    /\ call' = [call EXCEPT ![t] = "Cycle"]
    /\ ret' = [ret EXCEPT ![t] = "pending"]
    /\ arg' = [arg EXCEPT ![t] = Nil]
    /\ Goto(t, "c378")
    /\ UNCHANGED <<chainVars, tmp, txKey, seen, rt, now, inj, loop, pendingBlock>>

\* A ProduceBlock that counts the block it signed into the chain.
Cycle378Pushes(t) ==
    /\ pc[t] = "c378"
    /\ \E err \in BOOLEAN :
        IF err
        THEN /\ Goto(t, "c379")
             /\ UNCHANGED <<pendingBlock, ret, arg, seen, state>>
        ELSE /\ pendingBlock' = "signed"
             /\ state' = [state EXCEPT !.Height = state.Height + 1]
             /\ Return(t, "nil")
    /\ UNCHANGED <<life, cfg, index, db, nodes, bootErr, call, tmp, txKey, rt, now, inj, loop>>

\* Cycle, line 378, and ProduceBlock, lines 357-375: the local key is
\* fetched and the pending block signed, or one of the two fails.
Cycle378(t) ==
    /\ pc[t] = "c378"
    /\ \E err \in BOOLEAN :
        IF err
        THEN /\ Goto(t, "c379")
             /\ UNCHANGED <<pendingBlock, ret, arg, seen>>
        ELSE /\ pendingBlock' = "signed"
             /\ Return(t, "nil")
    /\ UNCHANGED <<chainVars, call, tmp, txKey, rt, now, inj, loop>>

\* Cycle, line 379: Stop after a failed ProduceBlock.
Cycle379(t) ==
    /\ pc[t] = "c379"
    /\ IF rt.stopCh = "closed"
       THEN Panic
       ELSE /\ rt' = [rt EXCEPT !.stopCh = "closed"]
            /\ Return(t, "ErrProduce")
            /\ UNCHANGED <<chainVars, call, tmp, txKey, now, inj, loop, pendingBlock>>

\* The block producer: the loop, and callers of Stop and Cycle.
NextLoop ==
    \/ NewChainConstruct
    \/ NewChainPushGenesis
    \/ Tick
    \/ BlockProducingCycleCall
    \/ Loop385
    \/ TillNextWakeUp95
    \/ Now79
    \/ Now81
    \/ Loop389
    \/ Loop390
    \/ Wake
    \/ \E t \in Threads : StopCall(t)
    \/ \E t \in Threads : CycleCall(t)
    \/ \E t \in Threads : Cycle378(t)
    \/ \E t \in Threads : Cycle379(t)

SpecLoop == Init /\ [][NextLoop]_vars

\* The scheduler runs the goroutine of the loop whenever it can take a step,
\* and time passes.
LoopNext == Loop385 \/ TillNextWakeUp95 \/ Now79 \/ Now81 \/ Loop389 \/ Loop390 \/ Wake
SpecLoopFair == SpecLoop /\ WF_vars(LoopNext) /\ WF_vars(Tick)

\* ---------------------------------------------------------------- Runtime callers
\* A caller enters GotoNextTurn.
GotoNextTurnCall(t) ==
    /\ life = "active" /\ pc[t] = "idle"
    /\ rt.NextHeight < MaxTurn
    /\ call' = [call EXCEPT ![t] = "GotoNextTurn"]
    /\ ret' = [ret EXCEPT ![t] = "pending"]
    /\ arg' = [arg EXCEPT ![t] = Nil]
    /\ Goto(t, "g85")
    /\ UNCHANGED <<chainVars, tmp, txKey, seen, rt, now, inj, loop, pendingBlock>>

\* GotoNextTurn, line 85: Lock
GotoNextTurn85(t) ==
    /\ pc[t] = "g85"
    /\ rt.writer = "none" /\ rt.readers = {}
    /\ rt' = [rt EXCEPT !.writer = t]
    /\ Goto(t, "g87")
    /\ UNCHANGED <<chainVars, call, arg, ret, tmp, txKey, seen, now, inj, loop, pendingBlock>>

\* GotoNextTurn, lines 86-88: NextHeight++, and the deferred Unlock
GotoNextTurn87(t) ==
    /\ pc[t] = "g87"
    /\ rt' = [GotoNextTurn(rt) EXCEPT !.writer = "none"]
    /\ Return(t, "nil")
    /\ UNCHANGED <<chainVars, call, tmp, txKey, now, inj, loop, pendingBlock>>

\* A caller enters UpdateTime.
UpdateTimeCall(t) ==
    /\ life = "active" /\ pc[t] = "idle"
    /\ now < MaxNow
    /\ call' = [call EXCEPT ![t] = "UpdateTime"]
    /\ ret' = [ret EXCEPT ![t] = "pending"]
    /\ arg' = [arg EXCEPT ![t] = Nil]
    /\ Goto(t, "u72")
    /\ UNCHANGED <<chainVars, tmp, txKey, seen, rt, now, inj, loop, pendingBlock>>

\* UpdateTime, line 72: Lock
UpdateTime72(t) ==
    /\ pc[t] = "u72"
    /\ rt.writer = "none" /\ rt.readers = {}
    /\ rt' = [rt EXCEPT !.writer = t]
    /\ Goto(t, "u74")
    /\ UNCHANGED <<chainVars, call, arg, ret, tmp, txKey, seen, now, inj, loop, pendingBlock>>

\* UpdateTime, lines 73-75: Offset = now.Sub(time.Now()), for a chain time
\* within MaxOffset of time.Now(), and the deferred Unlock
UpdateTime74(t) ==
    /\ pc[t] = "u74"
    /\ \E chainTime \in (now - MaxOffset)..(now + MaxOffset) :
        rt' = [rt EXCEPT !.Offset = chainTime - now, !.writer = "none"]
    /\ Return(t, "nil")
    /\ UNCHANGED <<chainVars, call, tmp, txKey, now, inj, loop, pendingBlock>>

\* The Runtime under the loop and one caller of its exported methods.
NextClock ==
    \/ NewChainConstruct
    \/ NewChainPushGenesis
    \/ Tick
    \/ BlockProducingCycleCall
    \/ Loop385
    \/ TillNextWakeUp95
    \/ Now79
    \/ Now81
    \/ Loop389
    \/ Loop390
    \/ Wake
    \/ GotoNextTurnCall("t1")
    \/ GotoNextTurn85("t1")
    \/ GotoNextTurn87("t1")
    \/ UpdateTimeCall("t1")
    \/ UpdateTime72("t1")
    \/ UpdateTime74("t1")

SpecClock == Init /\ [][NextClock]_vars

\* ---------------------------------------------------------------- resolver
\* Lists of a query hold up to MaxListLen values.
MaxListLen == 1

\* The values of a query (interface{}): a string is a sequence of
\* characters, a list holds values, a map gives values to keys.
Str(chars) == [kind |-> "string", s |-> chars]
Num(n) == [kind |-> "number", n |-> n]
List(items) == [kind |-> "list", items |-> items]
Map(m) == [kind |-> "map", m |-> m]
\* What a call that panicked leaves instead of a result.
Panicked == [kind |-> "panic"]

\* The strings of the queries: "", "$", "$a", "a", "$b".
Strings == {<<>>, <<"$">>, <<"$", "a">>, <<"a">>, <<"$", "b">>}
Leaves == {Str(c) : c \in Strings} \cup {Num(0)}
SeqsUpTo(S, n) == UNION {[1..k -> S] : k \in 0..n}
MapsOver(K, S) == UNION {[D -> S] : D \in SUBSET K}
Values ==
    Leaves \cup {List(l) : l \in SeqsUpTo(Leaves, MaxListLen)}
           \cup {Map(m) : m \in MapsOver({"k"}, Leaves)}
Queries == MapsOver({"k1", "k2"}, Values)
\* The magic variables: a is set or not; b never is.
VarMaps == MapsOver({<<"a">>}, {Str(<<"A">>)})

\* strings.HasPrefix(s, prefix)
HasPrefix(s, prefix) == Len(prefix) <= Len(s) /\ SubSeq(s, 1, Len(prefix)) = prefix

\* processInject, lines 60-67: the string case.  rv[1:] of the empty string
\* is out of range, and panics.
processString(rv, vmap) ==
    IF ~HasPrefix(<<"$">>, rv) THEN Str(rv)
    ELSE IF Len(rv) < 1 THEN Panicked
    ELSE IF Tail(rv) \notin DOMAIN vmap THEN Str(rv)
    ELSE vmap[Tail(rv)]

RECURSIVE processInject(_, _)
RECURSIVE InjectMagicVars(_, _)
\* InjectMagicVars, lines 21-40
InjectMagicVars(q, vmap) ==
    LET r == [k \in DOMAIN q |-> processInject(q[k], vmap)]
    IN IF \E k \in DOMAIN q : r[k] = Panicked THEN Panicked ELSE r

\* processInject, lines 42-74; a list is built again item by item and is
\* told from another by its items.
processInject(v, vmap) ==
    IF v.kind = "list"
    THEN LET r == [i \in 1..Len(v.items) |-> processInject(v.items[i], vmap)]
         IN IF \E i \in 1..Len(v.items) : r[i] = Panicked THEN Panicked ELSE List(r)
    ELSE IF v.kind = "map"
    THEN LET r == InjectMagicVars(v.m, vmap)
         IN IF r = Panicked THEN Panicked ELSE Map(r)
    ELSE IF v.kind = "string"
    THEN processString(v.s, vmap)
    ELSE v

\* A caller holds a query and the magic variables, and has not called yet.
InitInject ==
    /\ InitChain
    /\ \E q \in Queries, vmap \in VarMaps :
        inj = [q |-> q, vars |-> vmap, out |-> Nil, done |-> FALSE]

\* The call of InjectMagicVars.
InjectMagicVarsCall ==
    /\ ~inj.done
    /\ inj' = [inj EXCEPT !.out = InjectMagicVars(inj.q, inj.vars), !.done = TRUE]
    /\ UNCHANGED <<chainVars, callerVars, rt, now, loop, pendingBlock>>

NextInject == InjectMagicVarsCall

SpecInject == InitInject /\ [][NextInject]_vars

\* Two callers at once, as the RPC server and the producing loop are.
Next ==
    \/ NewChainConstruct
    \/ NewChainPushGenesis
    \/ Crash
    \/ LoadChain
    \/ \E t \in Threads : PushBlockCall(t, ConcInputs, MaxRaceHeight)
    \/ \E t \in Threads : AdviseNewBlockCall(t, ConcInputs, MaxRaceHeight)
    \/ \E t \in Threads : AdviseNewBlock328(t)
    \/ \E t \in Threads : AdviseNewBlock333(t)
    \/ \E t \in Threads : PushBlock283(t)
    \/ \E t \in Threads : PushBlock288(t)
    \/ \E t \in Threads : PushBlock289(t)
    \/ \E t \in Threads : PushBlock290Read(t)
    \/ \E t \in Threads : PushBlock290Write(t)
    \/ \E t \in Threads : PushBlock293(t)
    \/ \E t \in Threads : PushBlock303(t)
    \/ \E t \in Threads : PushBlock310(t)

Spec == Init /\ [][Next]_vars

\* One caller, one call at a time.
NextSeq ==
    \/ NewChainConstruct
    \/ NewChainPushGenesis
    \/ Crash
    \/ LoadChain
    \/ PushBlockCall("t1", SeqInputs, MaxHeight)
    \/ AdviseNewBlockCall("t1", SeqInputs, MaxHeight)
    \/ AdviseNewBlock328("t1")
    \/ AdviseNewBlock333("t1")
    \/ PushBlock283("t1")
    \/ PushBlock288("t1")
    \/ PushBlock289("t1")
    \/ PushBlock290Read("t1")
    \/ PushBlock290Write("t1")
    \/ PushBlock293("t1")
    \/ PushBlock303("t1")
    \/ PushBlock310("t1")

SpecSeq == Init /\ [][NextSeq]_vars

\* ---------------------------------------------------------------- claims
\* The step in which caller t's call returns (a Crash ends calls without a return).
Returns(t) == ret[t] = "pending" /\ ret'[t] # "pending" /\ life' = "active"
Admitted(t) == pc[t] = "idle" /\ call[t] = "AdviseNewBlock" /\ ret[t] = "nil"
Snapshot == [state |-> state, index |-> index, db |-> db, rt |-> rt]

\* C1: of two AdviseNewBlock calls that bring different blocks on the same
\* head, at most one returns success, so that the height rises by one, never
\* by two.
C1_OneAdmissionPerHead ==
    \A t, u \in Threads :
        (t # u /\ Admitted(t) /\ Admitted(u) /\ arg[t] # arg[u])
            => arg[t].ParentHash # arg[u].ParentHash

\* C2: a PushBlock of a header whose parent hash is not the head returns
\* ErrInvalidBlock and changes neither state nor index nor store; so does the
\* PushBlock of the genesis header inside NewChain.
C2_StaleParentRejected ==
    [][/\ \A t \in Threads :
            (pc[t] = "p283" /\ pc'[t] # "p283" /\ life' = "active"
                /\ arg[t].ParentHash # state.Head)
                => /\ ret'[t] = "ErrInvalidBlock"
                   /\ pc'[t] = "idle"
                   /\ <<state, index, db>>' = <<state, index, db>>
       /\ (life = "init" /\ life' # "init" /\ cfg.ParentHash # state.Head)
            => /\ bootErr'.err = "ErrInvalidBlock"
               /\ <<state, index, db>>' = <<state, index, db>>
      ]_vars

\* C2 witness: a PushBlock on a chain that holds a pushed block was rejected.
C2_Witness ==
    \E t \in Threads :
        /\ life = "active" /\ state.Height >= 1
        /\ call[t] = "PushBlock" /\ ret[t] = "ErrInvalidBlock"

\* C3: every node but the genesis node, in the index, at the head or rebuilt
\* by LoadChain, has a parent, is one higher than it, and was made of a header
\* whose parent hash is the parent's hash.
Linked(n) ==
    n.parent = Nil
        \/ (n.height = n.parent.height + 1 /\ n.parentHash = n.parent.hash)
IsGenesisNode(n) == cfg # Nil /\ n.hash = cfg.BlockHash
AcceptedNodes ==
    index \cup (IF state.node = Nil THEN {} ELSE {state.node})
          \cup {nodes[i] : i \in 1..Len(nodes)}
C3_NodesLinked ==
    \A n \in AcceptedNodes :
        ~IsGenesisNode(n) => (n.parent # Nil /\ Linked(n))

\* C4: a PushBlock whose store transaction fails returns with the state and
\* the index in memory as they were when it began, and the state in memory
\* equal to the committed meta record.
C4_MemoryFollowsCommit ==
    [][\A t \in Threads :
        (Returns(t) /\ ret'[t] = "ErrStore")
            => /\ state' = seen[t].state
               /\ index' = seen[t].index
               /\ marshal(state') = db'.meta
      ]_vars

\* C5: when LoadChain returns a Chain, its index holds one node per stored
\* header, its height is the number of stored headers minus one, and its head
\* hash and head node are those of the meta record.
NoCallSinceBoot == \A t \in Threads : call[t] = "none"
C5_RestoreRebuilds ==
    (life = "active" /\ bootErr = Boot("LoadChain", "nil") /\ NoCallSinceBoot)
        => /\ Cardinality(index) = Cardinality(db.log)
           /\ {n.hash : n \in index} = {r.header.BlockHash : r \in db.log}
           /\ state.Height = Cardinality(db.log) - 1
           /\ state.Head = db.meta.Head
           /\ state.node # Nil /\ state.node.hash = db.meta.Head

\* C6: in the committed store the head hash of the meta record is the hash of
\* a header stored under the key of its own node, and the height of the meta
\* record is the number of header records minus one.
C6_MetaMatchesLog ==
    (db # NoDB /\ db.meta # Nil)
        => /\ \E r \in db.log : /\ r.header.BlockHash = db.meta.Head
                                /\ r.key[2] = r.header.BlockHash
           /\ db.meta.Height = Cardinality(db.log) - 1

\* C7: an AdviseNewBlock of a signed block that is not indexed and extends
\* the head, at height h, is admitted if and only if T0 + (h+1) * Period <=
\* its timestamp < T0 + (h+2) * Period, and is otherwise rejected with
\* ErrBlockTimestampOutOfPeriod.
C7_SlotHalfOpen ==
    [][\A t \in Threads :
        (Returns(t) /\ call[t] = "AdviseNewBlock" /\ arg[t].sigOK
            /\ arg[t].ParentHash = seen[t].state.Head
            /\ ~HasBlock(seen[t].index, arg[t].BlockHash))
            => LET h == seen[t].state.Height
                   ts == arg[t].Timestamp
               IN IF T0 + (h + 1) * Period <= ts /\ ts < T0 + (h + 2) * Period
                  THEN ret'[t] \in {"nil", "ErrStore"}
                  ELSE ret'[t] = "ErrBlockTimestampOutOfPeriod"
      ]_vars

\* C7 witness: a block timed at the very start of its period was admitted
\* above a pushed block.
C7_Witness ==
    \E t \in Threads :
        /\ Admitted(t) /\ state.Height >= 2
        /\ arg[t].Timestamp = SlotStart(state.Height - 1)

\* C8: an AdviseNewBlock of a block that an earlier call committed to the
\* chain returns ErrBlockExists and leaves the height as it was.
C8_DuplicateRejected ==
    [][\A t \in Threads :
        (Returns(t) /\ call[t] = "AdviseNewBlock" /\ arg[t] \in {r.header : r \in seen[t].db.log})
            => ret'[t] = "ErrBlockExists" /\ state'.Height = seen[t].state.Height
      ]_vars

\* C9: an AdviseNewBlock that returns ErrBlockExists,
\* ErrBlockTimestampOutOfPeriod, a verification error or ErrInvalidBlock
\* leaves state, index, store and runtime as they were when it began.
Rejections == {"ErrBlockExists", "ErrBlockTimestampOutOfPeriod", "ErrVerify", "ErrInvalidBlock"}
C9_RejectionChangesNothing ==
    [][\A t \in Threads :
        (Returns(t) /\ call[t] = "AdviseNewBlock" /\ ret'[t] \in Rejections)
            => Snapshot' = seen[t]
      ]_vars

\* C9 witness: an AdviseNewBlock passed every check of its own and was
\* rejected by PushBlock, on a chain that holds a pushed block.
C9_Witness ==
    \E t \in Threads :
        /\ life = "active" /\ state.Height >= 1
        /\ call[t] = "AdviseNewBlock" /\ ret[t] = "ErrInvalidBlock"

\* C11 as stated: a NewChain whose genesis header passes VerifyAsGenesis
\* returns, unless the store fails, a Chain at height 0 whose head is the
\* genesis hash, whose index holds the genesis node alone and whose store
\* holds one header record; a NewChain whose genesis header fails
\* VerifyAsGenesis leaves the store as it was.
GenesisAlone ==
    /\ state'.Height = 0
    /\ state'.Head = cfg.BlockHash
    /\ index' = {newBlockNode(cfg, Nil)}
    /\ state'.node = newBlockNode(cfg, Nil)
    /\ Cardinality(db'.log) = 1
    /\ \A r \in db'.log : r.header = cfg
ReadsState == {"p283", "p288", "p290", "a333", "p293", "p296", "p310"}
C10_HeadIsNodeHash ==
    /\ (\E t \in Threads : pc[t] \in ReadsState)
            => (state.node # Nil => state.Head = state.node.hash)
    /\ life = "init" => (state.Height = -1 /\ state.Head = cfg.RootHash)

\* C12: once the stop channel is closed, by Stop or by a Cycle whose
\* ProduceBlock failed, every further Stop leaves it closed and the process
\* running: no step panics.
C12_StopIdempotent ==
    [][rt.stopCh = "closed" => (life' = "active" /\ rt'.stopCh = "closed")]_vars

\* A step of the goroutine that runs BlockProducingCycle.
LoopStep == loop' # loop /\ loop.pc # "none" /\ life' = "active"

LoopRuns == loop.pc \notin {"none", "returned"}
C14_StopEndsLoop ==
    /\ [][/\ (loop.pc = "sleep" /\ LoopStep) => (now >= loop.wake /\ loop'.pc = "l385")
          /\ (rt.stopCh = "closed" /\ loop.pc = "l385" /\ LoopStep) => loop'.pc = "returned"
         ]_vars
    /\ (rt.stopCh = "closed" /\ LoopRuns) ~> (loop.pc = "returned" \/ life = "panicked")

\* C14 witness: the stop channel is closed and the loop is still asleep.
C14_Witness == rt.stopCh = "closed" /\ loop.pc = "sleep" /\ now < loop.wake

\* The header records in the order the cursor of LoadChain meets them.
RECURSIVE InKeyOrder(_)
InKeyOrder(recs) ==
    IF recs = {} THEN <<>>
    ELSE <<MinRecord(recs)>> \o InKeyOrder(recs \ {MinRecord(recs)})

\* C15: a LoadChain that fails with ErrParentNotFound met a header whose
\* parent hash is the hash of none of the nodes it had rebuilt before it; a
\* LoadChain that succeeds has linked every node but the first to the node
\* rebuilt before it that has its parent hash.
C15_FallbackFindsEarlierNodes ==
    /\ (life = "none" /\ bootErr = Boot("LoadChain", "ErrParentNotFound"))
        => LET failing == InKeyOrder(db.log)[Len(nodes) + 1].header
           IN \A i \in 1..Len(nodes) : nodes[i].hash # failing.ParentHash
    /\ (life = "active" /\ bootErr = Boot("LoadChain", "nil"))
        => \A i \in 2..Len(nodes) :
              \E j \in 1..(i - 1) : /\ nodes[i].parent = nodes[j]
                                    /\ nodes[i].parentHash = nodes[j].hash

C17_ClockAccessLocked ==
    /\ loop.pc \in {"t95", "n81"} => "loop" \in rt.readers
    /\ \A t \in Threads : pc[t] \in {"g87", "u74"} => rt.writer = t
    /\ \A t \in Threads : pc[t] = "g87" => loop.pc # "t95"

\* C18: no step of the loop, of Cycle or of Stop, short of a panic, changes
\* the head, the height, the head node, the index or the store.
C18_ProductionLeavesChain ==
    [][(life = "active" /\ life' = "active") => <<state, index, db>>' = <<state, index, db>>]_vars

\* C18 witness: a ProduceBlock has signed the pending block and the loop has
\* been round a slot that had begun, over a chain that holds the genesis block.
C18_Witness ==
    /\ life = "active" /\ state.Height = 0 /\ Cardinality(db.log) = 1
    /\ pendingBlock = "signed" /\ loop.spun

\* C19: a step of the loop moves NextHeight only where IsMyTurn answers
\* true; the loop that finds the slot begun and the turn not its own changes
\* nothing and goes back to its select; it does not sleep from then on, and
\* goes round for as long as the stop channel is open.
C19_IdleSlotSpins ==
    [][/\ (LoopStep /\ rt'.NextHeight # rt.NextHeight) => (IsMyTurn /\ loop.pc = "l389")
       /\ (LoopStep /\ loop.pc = "l389" /\ loop.d <= 0 /\ ~IsMyTurn)
            => /\ loop'.pc = "l385"
               /\ UNCHANGED <<chainVars, callerVars, rt, now, inj, pendingBlock>>
       /\ (LoopStep /\ loop.spun)
            => /\ loop'.pc \notin {"l390", "sleep"}
               /\ loop.pc = "l389" => loop.d <= 0
               /\ (loop.pc = "l385" /\ rt.stopCh = "open") => loop'.pc = "t95"
      ]_vars

\* C19 witness: the loop has been round the slot once and is at it again,
\* at the same height.
C19_Witness ==
    /\ loop.spun /\ loop.pc = "l389" /\ loop.d <= 0
    /\ rt.NextHeight = 1 /\ rt.stopCh = "open"

\* What C20 says of a value: a string "$name" whose name is a magic variable
\* becomes the value of that variable, at any depth in lists and maps, and
\* every other value stays.
RECURSIVE Injected(_, _)
Injected(v, vmap) ==
    IF v.kind = "list"
    THEN List([i \in 1..Len(v.items) |-> Injected(v.items[i], vmap)])
    ELSE IF v.kind = "map"
    THEN Map([k \in DOMAIN v.m |-> Injected(v.m[k], vmap)])
    ELSE IF v.kind = "string" /\ Len(v.s) >= 1 /\ Head(v.s) = "$" /\ Tail(v.s) \in DOMAIN vmap
    THEN vmap[Tail(v.s)]
    ELSE v

\* C20: InjectMagicVars returns, without a panic, a map with the keys of
\* the query in which every value is the value of the query with its magic
\* variables put in.
C20_MagicVarsInjected ==
    inj.done /\ inj.q # Nil
        => /\ inj.out # Panicked
           /\ inj.out = [k \in DOMAIN inj.q |-> Injected(inj.q[k], inj.vars)]

====
